---- MODULE Spec2Model ----
(***************************************************************************)
(* Model of imgss.py, the image atlas generator: one run of main(), from   *)
(* the constructed ImageAtlasGenerator to the process exit.                *)
(*                                                                         *)
(* Strings (file names, paths) are sequences of one-character strings, so  *)
(* os.path.splitext, str.lower, str.endswith, os.path.join,                *)
(* os.path.basename and the code-point order used by sorted() are computed *)
(* character by character.  Python floats are modelled by exact rational   *)
(* arithmetic on integers; for the sizes the model draws (dimensions up to *)
(* 3, cells up to 32, at most MaxFiles + 1 images) the binary64 results of *)
(* lines 47, 49 and 56-62 are the exact ones.                              *)
(*                                                                         *)
(* The pixels of the canvas are not modelled: what is kept of the atlas is *)
(* the list of save() calls that completed.                                *)
(***************************************************************************)
EXTENDS Integers, Sequences, FiniteSets, TLC

VARIABLES
    pc,             \* where main() is
    dir_exists,     \* os.path.exists(self.input_dir)
    dir_entries,    \* the names in the input directory (a set: no order)
    cfg,            \* sprite_width, sprite_height, atlas_width, atlas_height
    output_path,    \* self.output_path
    mapping_arg,    \* args.mapping: <<>> is None, <<p>> is the path p
    image_files,    \* create_atlas: image_files
    cols,           \* create_atlas: cols
    rows,           \* create_atlas: rows
    i,              \* number of loop iterations of line 95 completed
    atlas_mapping,  \* create_atlas: atlas_mapping, in insertion order
    errors_logged,  \* what line 138 printed: path and exception, in order
    atlas_saves,    \* paths written by atlas.save (line 142), in order
    mapping_writes, \* files written by save_mapping_file, in order
    error,          \* the exception main() caught at line 199 ("" if none)
    exit_code       \* the process exit code (NoExit while running)

vars == <<pc, dir_exists, dir_entries, cfg, output_path, mapping_arg,
          image_files, cols, rows, i, atlas_mapping, errors_logged,
          atlas_saves, mapping_writes, error, exit_code>>

---------------------------------------------------------------------------
(* Bounds *)

\* Largest number of entries in the input directory.
MaxFiles == 4

---------------------------------------------------------------------------
(* Characters and strings *)

\* The characters used, in code-point order.
Ascii ==
    << "-", ".", "/",
       "A", "B", "C", "D", "E", "F", "G", "H", "I", "J", "K", "L", "M",
       "N", "O", "P", "Q", "R", "S", "T", "U", "V", "W", "X", "Y", "Z",
       "_",
       "a", "b", "c", "d", "e", "f", "g", "h", "i", "j", "k", "l", "m",
       "n", "o", "p", "q", "r", "s", "t", "u", "v", "w", "x", "y", "z" >>

Ord(c) == CHOOSE k \in 1..Len(Ascii) : Ascii[k] = c

\* str.lower on one character: "A".."Z" are at 4..29, "a".."z" at 31..56.
LowerChar(c) == IF Ord(c) \in 4..29 THEN Ascii[Ord(c) + 27] ELSE c

\* Mutant of Lower: the extension is compared as written.
LowerUnchanged(s) == s

\* str.lower
Lower(s) == [k \in 1..Len(s) |-> LowerChar(s[k])]

\* str.rfind of a character: the last position of c in s, 0 if there is none
\* (positions are 1-based here, so Python's -1 is 0).
RFind(s, c) ==
    IF \E k \in 1..Len(s) : s[k] = c
    THEN CHOOSE k \in 1..Len(s) : s[k] = c /\ \A m \in (k+1)..Len(s) : s[m] # c
    ELSE 0

\* str.endswith
EndsWith(s, suffix) ==
    /\ Len(suffix) <= Len(s)
    /\ SubSeq(s, Len(s) - Len(suffix) + 1, Len(s)) = suffix

\* Python's < on strings: lexicographic by code point.
RECURSIVE StrLess(_, _)
StrLess(a, b) ==
    IF b = <<>> THEN FALSE
    ELSE IF a = <<>> THEN TRUE
    ELSE IF Head(a) = Head(b) THEN StrLess(Tail(a), Tail(b))
    ELSE Ord(Head(a)) < Ord(Head(b))

\* os.path.splitext (posixpath): <<root, ext>>.  The extension starts at the
\* last dot, if that dot is after the last "/" and some character between the
\* "/" and the dot is not a dot (leading dots are not an extension).
splitext(p) ==
    LET sepIndex == RFind(p, "/")
        dotIndex == RFind(p, ".")
    IN  IF /\ dotIndex > sepIndex
           /\ \E k \in (sepIndex + 1)..(dotIndex - 1) : p[k] # "."
        THEN <<SubSeq(p, 1, dotIndex - 1), SubSeq(p, dotIndex, Len(p))>>
        ELSE <<p, <<>>>>

\* os.path.join(a, b) for a relative b (posixpath).
join(a, b) == IF a = <<>> \/ EndsWith(a, <<"/">>) THEN a \o b ELSE a \o <<"/">> \o b

\* os.path.basename (posixpath): what follows the last "/".
basename(p) == SubSeq(p, RFind(p, "/") + 1, Len(p))

\* sorted() on a list of strings (insertion into the sorted rest).
RECURSIVE Insert(_, _)
Insert(x, s) ==
    IF s = <<>> THEN <<x>>
    ELSE IF StrLess(Head(s), x) THEN <<Head(s)>> \o Insert(x, Tail(s))
    ELSE <<x>> \o s

RECURSIVE sorted(_)
sorted(s) == IF s = <<>> THEN <<>> ELSE Insert(Head(s), sorted(Tail(s)))

---------------------------------------------------------------------------
(* The run's inputs *)

InputDir == <<"i", "n">>
OutputName == <<"n">>

\* self.supported_formats
supported_formats ==
    { <<".", "p", "n", "g">>, <<".", "j", "p", "e", "g">>, <<".", "j", "p", "g">>,
      <<".", "w", "e", "b", "m">>, <<".", "w", "e", "b", "p">> }

\* The file names a directory is drawn from.
FileNames ==
    { <<"a", ".", "p", "n", "g">>,
      <<"B", ".", "J", "P", "G">>,
      <<"c", ".", "d", ".", "j", "p", "e", "g">>,
      <<"e", ".", "w", "e", "b", "p">>,
      <<"f", ".", "w", "e", "b", "m">>,
      <<"r", ".", "t", "x", "t">>,
      <<".", "p", "n", "g">> }

\* The argparse defaults.
DefaultSpriteWidth == 32
DefaultSpriteHeight == 32
DefaultAtlasWidth == 512
DefaultAtlasHeight == 512

Config(sw, sh, aw, ah) ==
    [sprite_width |-> sw, sprite_height |-> sh, atlas_width |-> aw, atlas_height |-> ah]

Configs ==
    { Config(DefaultSpriteWidth, DefaultSpriteHeight, DefaultAtlasWidth, DefaultAtlasHeight),
      Config(4, 4, 8, 8),
      Config(4, 2, 2, 8) }

OutputPaths == { <<"o">>, <<"o", ".", "d", "/">> }
MappingArgs == { <<>>, << <<"m", ".", "t", "x", "t">> >> }

\* What Image.open gives for a file: a decoded image of some size, or an error.
DecodeError == [ok |-> FALSE, width |-> 0, height |-> 0]
Decoded(w, h) == [ok |-> TRUE, width |-> w, height |-> h]
Images == { DecodeError, Decoded(3, 2), Decoded(2, 3), Decoded(1, 3) }

NoExit == -1

---------------------------------------------------------------------------
(* State after construction (lines 16-24, 175-187) *)

Init ==
    /\ pc = "get_image_files"
    /\ dir_exists \in BOOLEAN
    /\ dir_entries \in { d \in SUBSET FileNames : Cardinality(d) <= MaxFiles }
    /\ (~dir_exists => dir_entries = {})
    /\ cfg \in Configs
    /\ output_path \in OutputPaths
    /\ mapping_arg \in MappingArgs
    /\ image_files = <<>>
    /\ cols = 0
    /\ rows = 0
    /\ i = 0
    /\ atlas_mapping = <<>>
    /\ errors_logged = <<>>
    /\ atlas_saves = <<>>
    /\ mapping_writes = <<>>
    /\ error = ""
    /\ exit_code = NoExit

\* Mutant of Raise: the handler prints the error and main() returns normally.
RaiseExitZero(e) ==
    /\ error' = e
    /\ exit_code' = 0
    /\ pc' = "done"

\* main(), lines 199-201: an exception that leaves the try block.
Raise(e) ==
    /\ error' = e
    /\ exit_code' = 1
    /\ pc' = "done"

---------------------------------------------------------------------------
(* get_image_files *)

\* The orders os.listdir may return the entries of a directory in.
Listings(d) ==
    { s \in [1..Cardinality(d) -> d] : \A a, b \in 1..Cardinality(d) : a # b => s[a] # s[b] }

\* Lines 33-36: the loop over the listing.
RECURSIVE FilterSupported(_)
FilterSupported(listing) ==
    IF listing = <<>> THEN <<>>
    ELSE LET filename == Head(listing)
             file_ext == Lower(splitext(filename)[2])
         IN  (IF file_ext \in supported_formats
              THEN <<join(InputDir, filename)>>
              ELSE <<>>) \o FilterSupported(Tail(listing))

\* Mutant of get_image_files: the list is returned in listing order.
get_image_files_unsorted(listing) == FilterSupported(listing)

\* Lines 33-38.
get_image_files(listing) == sorted(FilterSupported(listing))

GetImageFiles ==
    /\ pc = "get_image_files"
    /\ IF ~dir_exists
       THEN /\ Raise("FileNotFoundError")
            /\ UNCHANGED image_files
       ELSE /\ \E listing \in Listings(dir_entries) :
                   image_files' = get_image_files(listing)
            /\ pc' = "create_atlas"
            /\ UNCHANGED <<error, exit_code>>
    /\ UNCHANGED <<dir_exists, dir_entries, cfg, output_path, mapping_arg, cols, rows,
                   i, atlas_mapping, errors_logged, atlas_saves, mapping_writes>>

---------------------------------------------------------------------------
(* calculate_grid_size *)

\* math.floor(math.sqrt(num / den)) for num >= 0, den > 0: the largest c with
\* c * c * den <= num.
RECURSIVE FloorSqrtFrom(_, _, _)
FloorSqrtFrom(c, num, den) ==
    IF (c + 1) * (c + 1) * den <= num THEN FloorSqrtFrom(c + 1, num, den) ELSE c

FloorSqrt(num, den) == FloorSqrtFrom(0, num, den)

\* math.ceil(a / b) for a >= 0, b > 0.
CeilDiv(a, b) == (a + b - 1) \div b

\* Line 47.
GridCols(num_images) ==
    FloorSqrt(cfg.atlas_width * num_images, cfg.sprite_width)

\* Lines 42-51: <<cols, rows>>, or the exception raised.  Line 49 divides by
\* cols.
calculate_grid_size(num_images) ==
    IF num_images = 0 THEN [raised |-> "", cols |-> 1, rows |-> 1]
    ELSE LET c == GridCols(num_images)
         IN  IF c = 0
             THEN [raised |-> "ZeroDivisionError", cols |-> c, rows |-> 0]
             ELSE [raised |-> "", cols |-> c, rows |-> CeilDiv(num_images, c)]

---------------------------------------------------------------------------
(* create_atlas, lines 69-92: up to the loop *)

CreateAtlasBegin ==
    /\ pc = "create_atlas"
    /\ IF image_files = <<>>
       THEN /\ Raise("ValueError")
            /\ UNCHANGED <<cols, rows>>
       ELSE LET grid == calculate_grid_size(Len(image_files))
            IN  IF grid.raised # ""
                THEN /\ Raise(grid.raised)
                     /\ UNCHANGED <<cols, rows>>
                ELSE /\ cols' = grid.cols
                     /\ rows' = grid.rows
                     /\ pc' = "process_images"
                     /\ UNCHANGED <<error, exit_code>>
    /\ i' = 0
    /\ atlas_mapping' = <<>>
    /\ UNCHANGED <<dir_exists, dir_entries, cfg, output_path, mapping_arg, image_files,
                   errors_logged, atlas_saves, mapping_writes>>

---------------------------------------------------------------------------
(* resize_image_to_fit *)

\* Lines 56-58: scale as a fraction <<numerator, denominator>>; min() keeps
\* scale_x when the two are equal.
Scale(width, height, cell_width, cell_height) ==
    IF cell_width * height <= cell_height * width
    THEN <<cell_width, width>>
    ELSE <<cell_height, height>>

\* round(x) for x = n / d >= 0: to the nearest integer, a tie to the even one.
Round(n, d) ==
    LET q == n \div d
        r == n % d
    IN  IF 2 * r < d THEN q
        ELSE IF 2 * r > d THEN q + 1
        ELSE IF q % 2 = 0 THEN q ELSE q + 1

\* Mutant of IntOfProduct: round(dimension * scale).
RoundOfProduct(dimension, scale) == Round(dimension * scale[1], scale[2])

\* int(dimension * scale): truncation toward zero of a product that is >= 0.
IntOfProduct(dimension, scale) == (dimension * scale[1]) \div scale[2]

\* Lines 56-62: <<new_width, new_height>>.
resize_image_to_fit(width, height, cell_width, cell_height) ==
    LET scale == Scale(width, height, cell_width, cell_height)
    IN  <<IntOfProduct(width, scale), IntOfProduct(height, scale)>>

\* Line 65: Image.resize raises ValueError ("height and width must be > 0")
\* for a size with a dimension below 1.
ResizeRaises(size) == size[1] < 1 \/ size[2] < 1

---------------------------------------------------------------------------
(* create_atlas, lines 95-139: one iteration of the loop *)

\* atlas_mapping[filename] = info on a dict kept in insertion order: a new key
\* goes last, an existing key keeps its place.
DictSet(d, filename, info) ==
    IF \E k \in 1..Len(d) : d[k].filename = filename
    THEN [k \in 1..Len(d) |->
             IF d[k].filename = filename
             THEN [filename |-> filename, info |-> info] ELSE d[k]]
    ELSE Append(d, [filename |-> filename, info |-> info])

\* Mutant of PasteOffset: the odd pixel goes to the left/top margin.
PasteOffsetCeil(cell_size, resized_size) == (cell_size - resized_size + 1) \div 2

\* Lines 117-118.
PasteOffset(cell_size, resized_size) == (cell_size - resized_size) \div 2

\* Mutant of CellIndex: the grid is filled column by column.
CellIndexByColumn(index) == <<index \div cols, index % cols>>

\* Lines 98-99: <<col, row>> of the image at this index of image_files.
CellIndex(index) == <<index % cols, index \div cols>>

\* Lines 98-135 for an image that was opened and resized: the mapping entry.
Placement(index, img, resized) ==
    LET cell_width  == cfg.sprite_width
        cell_height == cfg.sprite_height
        col == CellIndex(index)[1]
        row == CellIndex(index)[2]
        x == col * cell_width
        y == row * cell_height
    IN  [ x |-> x + PasteOffset(cell_width, resized[1]),
          y |-> y + PasteOffset(cell_height, resized[2]),
          width |-> resized[1],
          height |-> resized[2],
          cell_x |-> x,
          cell_y |-> y,
          cell_width |-> cell_width,
          cell_height |-> cell_height,
          original_size |-> <<img.width, img.height>> ]

\* Lines 108-114: the exception the body of the try raises for this image
\* ("" if none): Image.open on a file it cannot decode, or Image.resize.
ProcessingException(img) ==
    IF ~img.ok THEN "UnidentifiedImageError"
    ELSE IF ResizeRaises(resize_image_to_fit(img.width, img.height,
                                             cfg.sprite_width, cfg.sprite_height))
    THEN "ValueError"
    ELSE ""

\* Mutant of HandleImageError: the exception leaves the loop.
HandleImageErrorAbort(image_path, e) ==
    /\ Raise(e)
    /\ UNCHANGED <<errors_logged, i, atlas_mapping>>

\* Lines 137-139: the handler of the try; the loop goes on with the next file.
HandleImageError(image_path, e) ==
    /\ errors_logged' = Append(errors_logged, [path |-> image_path, exception |-> e])
    /\ i' = i + 1
    /\ UNCHANGED <<atlas_mapping, pc, error, exit_code>>

ProcessImage ==
    /\ pc = "process_images"
    /\ i < Len(image_files)
    /\ LET image_path == image_files[i + 1]
       IN  \E img \in Images :
              IF ProcessingException(img) # ""
              THEN HandleImageError(image_path, ProcessingException(img))
              ELSE LET resized == resize_image_to_fit(img.width, img.height,
                                      cfg.sprite_width, cfg.sprite_height)
                   IN  /\ atlas_mapping' =
                              DictSet(atlas_mapping, basename(image_path),
                                      Placement(i, img, resized))
                       /\ i' = i + 1
                       /\ UNCHANGED <<errors_logged, pc, error, exit_code>>
    /\ UNCHANGED <<dir_exists, dir_entries, cfg, output_path, mapping_arg,
                   image_files, cols, rows, atlas_saves, mapping_writes>>

---------------------------------------------------------------------------
(* create_atlas, lines 141-145: saving the atlas *)

AtlasSuffix == <<"-", "a", "t", "l", "u", "s", ".", "p", "n", "g">>

\* Line 142: the path given to atlas.save.
AtlasPath ==
    output_path \o (IF EndsWith(output_path, <<"/">>) THEN <<>> ELSE <<"/">>)
                \o OutputName \o AtlasSuffix

\* Mutant of LoopDone: the atlas is saved from inside the loop.
LoopDoneEarly == i >= 1

\* Line 95: the loop has gone through image_files.
LoopDone == i = Len(image_files)

SaveAtlas ==
    /\ pc = "process_images"
    /\ LoopDone
    /\ \E saved \in BOOLEAN :
          IF saved
          THEN /\ atlas_saves' = Append(atlas_saves, AtlasPath)
               /\ pc' = "save_mapping_file"
               /\ UNCHANGED <<error, exit_code>>
          ELSE /\ Raise("OSError")
               /\ UNCHANGED atlas_saves
    /\ UNCHANGED <<dir_exists, dir_entries, cfg, output_path, mapping_arg, image_files,
                   cols, rows, i, atlas_mapping, errors_logged, mapping_writes>>

---------------------------------------------------------------------------
(* save_mapping_file *)

MappingSuffix == <<"_", "m", "a", "p", "p", "i", "n", "g", ".", "t", "x", "t">>

\* Lines 149-150.
MappingPath ==
    IF mapping_arg = <<>>
    THEN splitext(output_path)[1] \o MappingSuffix
    ELSE mapping_arg[1]

\* Lines 158-160: the fields of one line, in the order written.
MappingLine(entry) ==
    << entry.filename,
       entry.info.x, entry.info.y, entry.info.width, entry.info.height,
       entry.info.cell_x, entry.info.cell_y, entry.info.cell_width, entry.info.cell_height,
       entry.info.original_size[1], entry.info.original_size[2] >>

\* Lines 153-160: the header (the atlas size it states) and the lines.
MappingContent(mapping) ==
    [ atlas_size |-> <<cfg.atlas_width, cfg.atlas_height>>,
      lines |-> [k \in 1..Len(mapping) |-> MappingLine(mapping[k])] ]

SaveMappingFile ==
    /\ pc = "save_mapping_file"
    /\ \E written \in BOOLEAN :
          IF written
          THEN /\ mapping_writes' =
                      Append(mapping_writes,
                             [path |-> MappingPath, content |-> MappingContent(atlas_mapping)])
               /\ exit_code' = 0
               /\ pc' = "done"
               /\ UNCHANGED error
          ELSE /\ Raise("OSError")
               /\ UNCHANGED mapping_writes
    /\ UNCHANGED <<dir_exists, dir_entries, cfg, output_path, mapping_arg, image_files,
                   cols, rows, i, atlas_mapping, errors_logged, atlas_saves>>

---------------------------------------------------------------------------

Next ==
    \/ GetImageFiles
    \/ CreateAtlasBegin
    \/ ProcessImage
    \/ SaveAtlas
    \/ SaveMappingFile

Spec == Init /\ [][Next]_vars

---------------------------------------------------------------------------
(* Vocabulary of the properties *)

Range(s) == { s[k] : k \in 1..Len(s) }

\* A name has a supported extension: lowercased it ends with one of the
\* formats, and what precedes that suffix is not made of dots only.
HasSupportedSuffix(name) ==
    \E ext \in supported_formats :
        /\ Len(name) > Len(ext)
        /\ \A k \in 1..Len(ext) :
               LET c == name[Len(name) - Len(ext) + k]
               IN  c = ext[k] \/ (Ord(c) \in 4..29 /\ Ord(ext[k]) = Ord(c) + 27)
        /\ \E k \in 1..(Len(name) - Len(ext)) : name[k] # "."

N == Len(image_files)
Entries == Range(atlas_mapping)
Infos == { e.info : e \in Entries }
ErrorPaths == { e.path : e \in Range(errors_logged) }
DefaultConfig ==
    Config(DefaultSpriteWidth, DefaultSpriteHeight, DefaultAtlasWidth, DefaultAtlasHeight)

\* The loop of create_atlas was entered (cols is assigned just before it).
LoopEntered == cols >= 1
\* create_atlas returned: atlas.save completed.
CreateAtlasReturned == atlas_saves # <<>>
\* The 0-based index in image_files of the file with this base name.
IndexOf(filename) == (CHOOSE k \in 1..N : basename(image_files[k]) = filename) - 1

\* scale = min(cell_width / width, cell_height / height), as the fractions
\* <<numerator, denominator>> that are one of the two and at most both.
MinScales(r) ==
    { sc \in { <<r.cell_width, r.original_size[1]>>, <<r.cell_height, r.original_size[2]>> } :
        /\ sc[1] * r.original_size[1] <= r.cell_width * sc[2]
        /\ sc[1] * r.original_size[2] <= r.cell_height * sc[2] }

---------------------------------------------------------------------------
(* C1: for every image count N >= 1 and positive sprite and atlas widths,   *)
(* calculate_grid_size returns columns >= 1 and rows = ceil(N / columns);   *)
(* it never divides by zero and never aborts the run.                       *)
C1_GridColumnsAtLeastOne ==
    /\ error # "ZeroDivisionError"
    /\ (pc = "process_images" =>
           /\ cols >= 1
           /\ rows * cols >= N
           /\ (rows - 1) * cols < N)

(* C2 as claimed: the scaled size recorded for an image is                  *)
(* (round(imgWidth * scale), round(imgHeight * scale)), each dimension      *)
(* rounded to the nearest integer.                                          *)
C2_ScaledSizeRounded ==
    \A r \in Infos : \A sc \in MinScales(r) :
        /\ r.width = Round(r.original_size[1] * sc[1], sc[2])
        /\ r.height = Round(r.original_size[2] * sc[1], sc[2])

(* C2 as amended: the scaled size recorded for an image is                  *)
(* (int(imgWidth * scale), int(imgHeight * scale)) with                     *)
(* scale = min(cellWidth / imgWidth, cellHeight / imgHeight): each          *)
(* dimension is truncated, it is the largest integer not above the product. *)
C2_ScaledSizeTruncated ==
    \A r \in Infos :
        /\ MinScales(r) # {}
        /\ \A sc \in MinScales(r) :
              /\ r.width * sc[2] <= r.original_size[1] * sc[1]
              /\ r.original_size[1] * sc[1] < (r.width + 1) * sc[2]
              /\ r.height * sc[2] <= r.original_size[2] * sc[1]
              /\ r.original_size[2] * sc[1] < (r.height + 1) * sc[2]

\* An image is recorded whose scaled height has a fraction above one half:
\* truncation and rounding differ.
C2_Witness ==
    \E r \in Infos : \E sc \in MinScales(r) :
        2 * ((r.original_size[2] * sc[1]) % sc[2]) > sc[2]

\* After the loop was entered the run goes through every file, and only a
\* failed save makes it exit with 1.
LoopRunsToTheEnd ==
    (LoopEntered /\ pc = "done") =>
        /\ Len(atlas_mapping) + Len(errors_logged) = N
        /\ error \in {"", "OSError"}
        /\ (exit_code = 0 <=> error = "")

(* C3 as claimed: after create_atlas finishes the mapping holds exactly one *)
(* entry for each file that decoded successfully and none for a file whose  *)
(* processing raised an error; a per-file failure does not abort the loop   *)
(* and the run exits with code 0 (its outputs being written).               *)
C3_EntryPerDecodedFile ==
    /\ CreateAtlasReturned =>
          /\ \A p \in Range(image_files) :
                (\E e \in Range(errors_logged) :
                     e.path = p /\ e.exception = "UnidentifiedImageError")
                  <=> ~(\E e \in Entries : e.filename = basename(p))
          /\ Len(atlas_mapping) = Cardinality(Entries)
    /\ LoopRunsToTheEnd

(* C3 as amended: after create_atlas finishes the mapping holds exactly one *)
(* entry for each file whose processing raised no error and none for a file *)
(* whose processing raised one, be it in decoding or in the resize          *)
(* (entries = N - failures); a per-file failure does not abort the loop,    *)
(* the remaining files are processed and the run exits with code 0 (its     *)
(* outputs being written).                                                  *)
C3_EntryPerProcessedFile ==
    /\ CreateAtlasReturned =>
          /\ N >= 1
          /\ \A p \in Range(image_files) :
                (p \in ErrorPaths) <=> ~(\E e \in Entries : e.filename = basename(p))
          /\ \A e \in Entries : \E p \in Range(image_files) : e.filename = basename(p)
          /\ Len(atlas_mapping) = Cardinality(Entries)
          /\ Len(atlas_mapping) = N - Len(errors_logged)
    /\ LoopRunsToTheEnd

\* A run that skipped a file which decoded (its resize raised) and one that
\* did not decode, placed a file after them, and exited with 0.
C3_Witness ==
    /\ pc = "done"
    /\ exit_code = 0
    /\ N >= 3
    /\ Len(errors_logged) = 2
    /\ errors_logged[1].exception = "ValueError"
    /\ errors_logged[2].exception = "UnidentifiedImageError"
    /\ \E e \in Entries : e.filename = basename(image_files[N])

(* C4: every placement record lies inside its cell and is centered in it:   *)
(* newWidth <= cellWidth, newHeight <= cellHeight,                          *)
(* pasteX = cellX + floor((cellWidth - newWidth) / 2), the same for Y; the  *)
(* left/top margin is >= 0, equals the right/bottom margin when the slack   *)
(* is even and is 1 pixel smaller when it is odd.                           *)
Centered(paste, cell, cell_size, size) ==
    LET before == paste - cell
        after  == (cell + cell_size) - (paste + size)
        slack  == cell_size - size
    IN  /\ size <= cell_size
        /\ before >= 0
        /\ 2 * before <= slack /\ slack < 2 * before + 2
        /\ (slack % 2 = 0 => before = after)
        /\ (slack % 2 = 1 => before = after - 1)

C4_PlacementCentered ==
    \A r \in Infos :
        /\ Centered(r.x, r.cell_x, r.cell_width, r.width)
        /\ Centered(r.y, r.cell_y, r.cell_height, r.height)

\* A record with an odd horizontal slack and, in the second row, a record
\* with an even, non-zero one.
C4_Witness ==
    \E r, q \in Infos :
        /\ (r.cell_width - r.width) % 2 = 1
        /\ (q.cell_width - q.width) % 2 = 0
        /\ q.cell_width > q.width
        /\ q.cell_y > 0

(* C5: the file at 0-based index i of the sorted enumeration (failed files  *)
(* counted) gets cell col = i mod columns, row = i div columns, with origin *)
(* (col * spriteWidth, row * spriteHeight) and the sprite size as cell      *)
(* size; two files never get the same or overlapping cells, and a skipped   *)
(* file leaves its cell empty.  4 images, sprite 32x32, atlas 512x512:      *)
(* columns = 8, rows = 1, cells (0..3, 0).                                  *)
C5_CellOfIndex ==
    /\ \A e \in Entries :
          LET idx == IndexOf(e.filename)
          IN  /\ e.info.cell_x = (idx % cols) * cfg.sprite_width
              /\ e.info.cell_y = (idx \div cols) * cfg.sprite_height
              /\ e.info.cell_width = cfg.sprite_width
              /\ e.info.cell_height = cfg.sprite_height
    /\ \A a, b \in Entries :
          a # b =>
              \/ a.info.cell_x + a.info.cell_width <= b.info.cell_x
              \/ b.info.cell_x + b.info.cell_width <= a.info.cell_x
              \/ a.info.cell_y + a.info.cell_height <= b.info.cell_y
              \/ b.info.cell_y + b.info.cell_height <= a.info.cell_y
    /\ (LoopEntered /\ cfg = DefaultConfig /\ N = 4) =>
          /\ cols = 8
          /\ rows = 1
          /\ \A e \in Entries :
                /\ e.info.cell_y = 0
                /\ e.info.cell_x = 32 * IndexOf(e.filename)

\* Four files in a grid of two columns: the second was skipped, the third
\* and fourth are placed in the second row.
C5_Witness ==
    /\ N = 4
    /\ cols = 2
    /\ i = 4
    /\ ErrorPaths = {image_files[2]}
    /\ \E e \in Entries :
          /\ e.filename = basename(image_files[4])
          /\ e.info.cell_x = cfg.sprite_width
          /\ e.info.cell_y = cfg.sprite_height

(* C6: neither the atlas nor the mapping file is written before every       *)
(* enumerated file has been processed or skipped; the atlas is written at   *)
(* most once; a run that aborts before the loop completes leaves neither    *)
(* file written.                                                            *)
C6_OutputsAfterLoop ==
    /\ (atlas_saves # <<>> \/ mapping_writes # <<>>) =>
          \A p \in Range(image_files) :
              \/ p \in ErrorPaths
              \/ \E e \in Entries : e.filename = basename(p)
    /\ Len(atlas_saves) <= 1
    /\ Len(mapping_writes) <= 1
    /\ (mapping_writes # <<>> => atlas_saves # <<>>)
    /\ (pc = "done" /\ Len(atlas_mapping) + Len(errors_logged) < N) =>
          atlas_saves = <<>> /\ mapping_writes = <<>>
    /\ (error \in {"FileNotFoundError", "ValueError", "ZeroDivisionError"}) =>
          atlas_saves = <<>> /\ mapping_writes = <<>>

\* Both files written, once each, after three files of which one was skipped.
C6_Witness ==
    /\ Len(atlas_saves) = 1
    /\ Len(mapping_writes) = 1
    /\ N = 3
    /\ Len(errors_logged) = 1

(* C7: if the input directory does not exist, or holds no file with a       *)
(* supported extension, the run ends with exit code 1 and writes neither    *)
(* file; a failure while writing the atlas or the mapping ends with exit    *)
(* code 1; exit code 0 occurs only when both files were written.            *)
C7_ExitCodes ==
    /\ exit_code \in {NoExit, 0, 1}
    /\ (pc = "done" <=> exit_code # NoExit)
    /\ pc = "done" =>
          /\ (~dir_exists \/ \A name \in dir_entries : ~HasSupportedSuffix(name)) =>
                exit_code = 1 /\ atlas_saves = <<>> /\ mapping_writes = <<>>
          /\ error # "" => exit_code = 1
          /\ (Len(atlas_saves) = 0 \/ Len(mapping_writes) = 0) => exit_code = 1
          /\ exit_code = 0 => Len(atlas_saves) = 1 /\ Len(mapping_writes) = 1

\* A run over an existing directory that holds files, none supported.
C7_Witness ==
    /\ pc = "done"
    /\ dir_exists
    /\ Cardinality(dir_entries) = 2
    /\ image_files = <<>>
    /\ exit_code = 1

(* C8: for an existing directory get_image_files returns exactly the        *)
(* entries whose lowercased extension is .png, .jpg, .jpeg, .webp or .webm, *)
(* each once, in ascending lexicographic order; other entries are left out  *)
(* without an error, and a directory with no matching entry gives an empty  *)
(* list, not an error.                                                      *)
C8_EnumerationSortedFiltered ==
    pc = "create_atlas" =>
        /\ Range(image_files) =
               { join(InputDir, name) : name \in { m \in dir_entries : HasSupportedSuffix(m) } }
        /\ \A k \in 1..(N - 1) : StrLess(image_files[k], image_files[k + 1])
        /\ error = ""
        /\ exit_code = NoExit

\* The enumeration of a directory that holds a name with an upper-case
\* extension, two lower-case ones and an unsupported one.
C8_Witness ==
    /\ pc = "create_atlas"
    /\ Cardinality(dir_entries) = 4
    /\ N = 3
    /\ basename(image_files[1]) = <<"B", ".", "J", "P", "G">>

(* C9: the mapping file is a function of the directory's contents and the   *)
(* configuration, whatever order the listing returned the entries in: its   *)
(* lines are in sorted file order, one per file that was not skipped, and   *)
(* the fields of a line depend only on the file's index in the sorted       *)
(* enumeration, its dimensions and the configuration.                       *)
Rank(name) ==
    Cardinality({ m \in dir_entries : HasSupportedSuffix(m) /\ StrLess(m, name) })

ExpectedLine(line) ==
    LET img == Decoded(line[10], line[11])
    IN  MappingLine([ filename |-> line[1],
                      info |-> Placement(Rank(line[1]), img,
                                  resize_image_to_fit(img.width, img.height,
                                      cfg.sprite_width, cfg.sprite_height)) ])

C9_MappingDeterministic ==
    \A w \in Range(mapping_writes) :
        LET lines == w.content.lines
        IN  /\ w.content.atlas_size = <<cfg.atlas_width, cfg.atlas_height>>
            /\ \A k \in 1..(Len(lines) - 1) : StrLess(lines[k][1], lines[k + 1][1])
            /\ { join(InputDir, line[1]) : line \in Range(lines) } =
                   { join(InputDir, m) : m \in { n \in dir_entries : HasSupportedSuffix(n) } }
                       \ ErrorPaths
            /\ \A line \in Range(lines) : line = ExpectedLine(line)

\* A mapping file of three lines written for a directory of four entries.
C9_Witness ==
    \E w \in Range(mapping_writes) :
        /\ Len(w.content.lines) = 3
        /\ Cardinality(dir_entries) = 4

(* C10: without a --mapping override the mapping file is written to the     *)
(* path of the atlas file, {output_path}/{output_name}-atlus.png, with its  *)
(* extension replaced by _mapping.txt; with an override it is written to    *)
(* exactly the override path.                                               *)
C10_MappingPathFromAtlasPath ==
    \A w \in Range(mapping_writes) :
        /\ atlas_saves # <<>>
        /\ w.path = IF mapping_arg = <<>>
                    THEN splitext(atlas_saves[1])[1] \o MappingSuffix
                    ELSE mapping_arg[1]

====
